---- MODULE Spec2Model ----
(***************************************************************************)
(* Model of generate-manifest.js: the date parser (parseStartDate), the    *)
(* name normaliser, the reference-table loader (loadTournamentDates), the  *)
(* resolver (findTournamentDate) and the chronological sort of one season. *)
(* Strings are TLA+ strings; positions are 1-based where JavaScript's are  *)
(* 0-based.                                                                *)
(***************************************************************************)
EXTENDS Integers, Sequences, FiniteSets, TLC

VARIABLES pc, dateStr, date, lines, i, line, columns, dateMap,
          tournamentDirs, j, dateInfo, site, tournamentsWithDates,
          tournamentOrder

vars == <<pc, dateStr, date, lines, i, line, columns, dateMap,
          tournamentDirs, j, dateInfo, site, tournamentsWithDates,
          tournamentOrder>>

\* JavaScript's null (a missing date, a missing record).
null == [null |-> TRUE]

---------------------------------------------------------------------------
\* String primitives of the JavaScript runtime the script calls.

UPPER == "ABCDEFGHIJKLMNOPQRSTUVWXYZ"
LOWER == "abcdefghijklmnopqrstuvwxyz"
DIGITS == "0123456789"
TAB == "\t"

Char(s, p) == SubSeq(s, p, p)

Chars(alphabet) == {Char(alphabet, k) : k \in 1..Len(alphabet)}
DigitChars == Chars(DIGITS)
LowerChars == Chars(LOWER)
UpperChars == Chars(UPPER)

\* Position of each character of the alphabet in it.
Positions(alphabet) ==
    [c \in Chars(alphabet) |->
        CHOOSE k \in 1..Len(alphabet) : Char(alphabet, k) = c]
DigitValue == [c \in DigitChars |-> Positions(DIGITS)[c] - 1]
LowerOf == [c \in UpperChars |-> Char(LOWER, Positions(UPPER)[c])]

IsDigit(c) == c \in DigitChars
IsLowerLetter(c) == c \in LowerChars
IsSpace(c) == c = " " \/ c = TAB
\* \w of a regular expression
IsWordChar(c) == IsDigit(c) \/ IsLowerLetter(c) \/ c \in UpperChars \/ c = "_"

LowerChar(c) == IF c \in UpperChars THEN LowerOf[c] ELSE c

RECURSIVE toLowerCase(_)
toLowerCase(s) ==
    IF s = "" THEN "" ELSE LowerChar(Head(s)) \o toLowerCase(Tail(s))

RECURSIVE trimStart(_)
trimStart(s) == IF s # "" /\ IsSpace(Head(s)) THEN trimStart(Tail(s)) ELSE s

RECURSIVE trimEnd(_)
trimEnd(s) ==
    IF s # "" /\ IsSpace(Char(s, Len(s)))
    THEN trimEnd(SubSeq(s, 1, Len(s) - 1)) ELSE s

trim(s) == trimEnd(trimStart(s))

\* Positions at which t occurs in s.
Occurrences(s, t) ==
    {p \in 1..(Len(s) - Len(t) + 1) : SubSeq(s, p, p + Len(t) - 1) = t}

includes(s, t) == Occurrences(s, t) # {}

SetMin(S) == CHOOSE x \in S : \A y \in S : x <= y

\* 1-based position of the first occurrence, 0 when there is none.
indexOf(s, t) ==
    LET found == Occurrences(s, t) IN IF found = {} THEN 0 ELSE SetMin(found)

\* String.prototype.replace(t, '') with a string pattern: the first
\* occurrence only.
removeFirst(s, t) ==
    LET p == indexOf(s, t)
    IN IF p = 0 THEN s
       ELSE SubSeq(s, 1, p - 1) \o SubSeq(s, p + Len(t), Len(s))

RECURSIVE parseInt(_)
parseInt(s) ==
    IF s = "" THEN 0
    ELSE 10 * parseInt(SubSeq(s, 1, Len(s) - 1)) + DigitValue[Char(s, Len(s))]

---------------------------------------------------------------------------
\* parseStartDate

MONTHS == <<
    [name |-> "january", num |-> 0], [name |-> "february", num |-> 1],
    [name |-> "march", num |-> 2], [name |-> "april", num |-> 3],
    [name |-> "may", num |-> 4], [name |-> "june", num |-> 5],
    [name |-> "july", num |-> 6], [name |-> "august", num |-> 7],
    [name |-> "september", num |-> 8], [name |-> "october", num |-> 9],
    [name |-> "november", num |-> 10], [name |-> "december", num |-> 11],
    [name |-> "spetember", num |-> 8] >>

DefaultYear == 2025

\* End (exclusive) of the whitespace run starting at p.
RECURSIVE SkipSpaces(_, _)
SkipSpaces(s, p) ==
    IF p <= Len(s) /\ IsSpace(Char(s, p)) THEN SkipSpaces(s, p + 1) ELSE p

\* dateStr.replace(/\s*\(.*?\)\s*/g, ''): every leftmost match, scanning from
\* position p; a match starts at p when the whitespace run at p is followed
\* by "(" and a ")" comes later, and ends after the whitespace behind the
\* first such ")".
RECURSIVE stripParens(_, _)
stripParens(s, p) ==
    IF p > Len(s) THEN ""
    ELSE LET open == SkipSpaces(s, p)
             closes == {q \in (open + 1)..Len(s) : Char(s, q) = ")"}
         IN IF open <= Len(s) /\ Char(s, open) = "(" /\ closes # {}
            THEN stripParens(s, SkipSpaces(s, SetMin(closes) + 1))
            ELSE Char(s, p) \o stripParens(s, p + 1)

\* Start positions of a match of /\b(202\d)\b/.
YearMatches(s) ==
    {p \in 1..(Len(s) - 3) :
        /\ SubSeq(s, p, p + 2) = "202"
        /\ IsDigit(Char(s, p + 3))
        /\ (p = 1 \/ ~IsWordChar(Char(s, p - 1)))
        /\ (p + 4 > Len(s) \/ ~IsWordChar(Char(s, p + 4)))}

\* The year of the first match; 0 stands for the null of a failed match
\* (both are falsy in the test "!year").
yearMatch(s) ==
    IF YearMatches(s) = {} THEN 0
    ELSE LET p == SetMin(YearMatches(s)) IN parseInt(SubSeq(s, p, p + 3))

\* afterMonth.match(/\s*(\d{1,2})/): the pattern is not anchored, so the
\* match is at the first digit anywhere in s; the group takes one or two
\* digits. "" when s holds no digit.
dayMatch(s) ==
    LET ds == {p \in 1..Len(s) : IsDigit(Char(s, p))}
    IN IF ds = {} THEN ""
       ELSE LET p == SetMin(ds)
            IN IF p + 1 <= Len(s) /\ IsDigit(Char(s, p + 1))
               THEN SubSeq(s, p, p + 1) ELSE Char(s, p)

\* Indices of MONTHS whose name occurs in the lower-cased text.
MonthsFound(lower) == {k \in 1..Len(MONTHS) : includes(lower, MONTHS[k].name)}

\* The loop over Object.entries(MONTHS) breaks at the first entry, in the
\* table's order, whose name the text includes; 0 when it finds none.
findMonth(lower) ==
    LET found == MonthsFound(lower) IN IF found = {} THEN 0 ELSE SetMin(found)

parseStartDate(str) ==
    IF str = "" \/ trim(str) = "" \/ toLowerCase(str) = "nan" THEN null
    ELSE LET s == trim(stripParens(trim(str), 1))
             lower == toLowerCase(s)
             year == yearMatch(s)
             found == findMonth(lower)
         IN IF found = 0 THEN null
            ELSE LET m == MONTHS[found]
                     monthIndex == indexOf(lower, m.name)
                     afterMonth == SubSeq(s, monthIndex + Len(m.name), Len(s))
                     day == dayMatch(afterMonth)
                 IN IF day = "" THEN null
                    ELSE [year |-> IF year = 0 THEN DefaultYear ELSE year,
                          month |-> m.num,
                          day |-> parseInt(day)]

\* Date.prototype.getTime in days: new Date(y, m, d) is the first day of
\* month m of year y plus d - 1 days, whatever d is.
IsLeap(y) == (y % 4 = 0 /\ y % 100 # 0) \/ y % 400 = 0
MonthDays(y) ==
    <<31, IF IsLeap(y) THEN 29 ELSE 28, 31, 30, 31, 30, 31, 31, 30, 31, 30, 31>>
RECURSIVE DaysBeforeMonth(_, _)
DaysBeforeMonth(y, m) ==
    IF m = 0 THEN 0 ELSE DaysBeforeMonth(y, m - 1) + MonthDays(y)[m]
RECURSIVE DaysBeforeYear(_)
DaysBeforeYear(y) ==
    IF y <= 2020 THEN 0
    ELSE DaysBeforeYear(y - 1) + (IF IsLeap(y - 1) THEN 366 ELSE 365)
getTime(d) == DaysBeforeYear(d.year) + DaysBeforeMonth(d.year, d.month) + d.day

---------------------------------------------------------------------------
\* Date expressions given to parseStartDate on its own.

StartMonths == {"January", "March", "September", "October", "December"}

\* The end of a range that runs into the next month.
NextMonthEnd ==
    [m \in StartMonths |->
        CASE m = "January" -> "-February 1"
          [] m = "March" -> "-April 1"
          [] m = "September" -> "-October 1"
          [] m = "October" -> "-November 2"
          [] m = "December" -> "-January 2"]

DayRanges(m) == {" 7", " 7-9", " 30", " 30-31", " 30" \o NextMonthEnd[m]}
YearTexts == {"", ", 2025", ", 2026"}
Annotations == {"", " (tentative)"}

DateStrings ==
    UNION {{m \o r \o y \o a :
              r \in DayRanges(m), y \in YearTexts, a \in Annotations} :
           m \in StartMonths}
    \cup {m \o y : m \in StartMonths, y \in {" 2026", ", 2026"}}
    \cup {"", "  ", "nan", "NaN", "TBD", "August 22-23, 2025", "Sept 5"}

---------------------------------------------------------------------------
\* normalizeTournamentName

RECURSIVE keepAlnum(_)
keepAlnum(s) ==
    IF s = "" THEN ""
    ELSE (IF IsLowerLetter(Head(s)) \/ IsDigit(Head(s)) THEN Head(s) ELSE "")
         \o keepAlnum(Tail(s))

normalizeTournamentName(name) ==
    IF name = "" THEN "" ELSE trim(keepAlnum(toLowerCase(name)))

---------------------------------------------------------------------------
\* The Map built by loadTournamentDates: a sequence of [key, value] in the
\* order the keys were first inserted.

MapKeys(m) == [k \in 1..Len(m) |-> m[k].key]
MapHas(m, key) == \E k \in 1..Len(m) : m[k].key = key
MapGet(m, key) == m[CHOOSE k \in 1..Len(m) : m[k].key = key].value

\* MapSet with a delete before the set: an existing key moves to the end.
MapSetMoveToEnd(m, key, value) ==
    LET other(e) == e.key # key
    IN Append(SelectSeq(m, other), [key |-> key, value |-> value])

\* Map.prototype.set: a new key goes last; an existing key keeps its place
\* and takes the new value.
MapSet(m, key, value) ==
    IF MapHas(m, key)
    THEN [k \in 1..Len(m) |-> IF m[k].key = key
                               THEN [key |-> key, value |-> value] ELSE m[k]]
    ELSE Append(m, [key |-> key, value |-> value])

---------------------------------------------------------------------------
\* loadTournamentDates

\* content.split(/\r?\n/).filter(line => line.trim())
RECURSIVE filterBlank(_)
filterBlank(content) ==
    IF content = <<>> THEN <<>>
    ELSE (IF trim(Head(content)) # "" THEN <<Head(content)>> ELSE <<>>)
         \o filterBlank(Tail(content))

\* line.split('\t'); cur is the piece being read.
RECURSIVE splitTab(_, _)
splitTab(s, cur) ==
    IF s = "" THEN <<cur>>
    ELSE IF Head(s) = TAB THEN <<cur>> \o splitTab(Tail(s), "")
    ELSE splitTab(Tail(s), cur \o Head(s))

\* The character loop of the comma branch: a double quote toggles inQuote
\* and is dropped, a comma outside quotes ends the column, each column is
\* trimmed.
RECURSIVE splitCsv(_, _, _)
splitCsv(s, current, inQuote) ==
    IF s = "" THEN <<trim(current)>>
    ELSE IF Head(s) = "\"" THEN splitCsv(Tail(s), current, ~inQuote)
    ELSE IF Head(s) = "," /\ ~inQuote
         THEN <<trim(current)>> \o splitCsv(Tail(s), "", inQuote)
    ELSE splitCsv(Tail(s), current \o Head(s), inQuote)

\* parseColumns with the delimiter looked for once, in the first line.
parseColumnsFirstLine(ls, n) ==
    IF includes(ls[1], TAB) THEN splitTab(ls[n], "") ELSE splitCsv(ls[n], "", FALSE)

\* The columns of line n of the table: the delimiter is looked for in that
\* line.
parseColumns(ls, n) ==
    IF includes(ls[n], TAB) THEN splitTab(ls[n], "") ELSE splitCsv(ls[n], "", FALSE)

\* The header test on the first line: 0 lines to skip, or 1.
startIndex(ls) ==
    LET firstLine == toLowerCase(ls[1])
    IN IF includes(firstLine, "date") /\ includes(firstLine, "name") THEN 1 ELSE 0

\* Whether the row passes the column-count and the empty/nan tests.
rowAccepted(cols) ==
    /\ Len(cols) >= 2
    /\ trim(cols[2]) # "" /\ toLowerCase(trim(cols[2])) # "nan"
    /\ trim(cols[1]) # "" /\ toLowerCase(trim(cols[1])) # "nan"

\* loadRow without the test of the parsed date: a placeholder is inserted.
loadRowPlaceholder(m, cols, d) ==
    MapSet(m, normalizeTournamentName(trim(cols[2])),
           [originalName |-> trim(cols[2]), date |-> d, dateStr |-> trim(cols[1])])

\* The table after an accepted row whose date text parsed to d.
loadRow(m, cols, d) ==
    IF d = null THEN m
    ELSE MapSet(m, normalizeTournamentName(trim(cols[2])),
                [originalName |-> trim(cols[2]), date |-> d,
                 dateStr |-> trim(cols[1])])

---------------------------------------------------------------------------
\* findTournamentDate

\* suffixes with "forum" added.
suffixesWithForum ==
    <<"invitational", "tournament", "classic", "memorial", "forum">>

suffixes == <<"invitational", "tournament", "classic", "memorial">>

\* Entries, by position, whose key contains or is contained in the name.
partialHits(normalized, m) ==
    {k \in 1..Len(m) :
        includes(normalized, m[k].key) \/ includes(m[k].key, normalized)}

\* Entries matching once suffix is removed from the name and from the key.
suffixHits(normalized, m, suffix) ==
    LET withoutSuffix == removeFirst(normalized, suffix)
    IN {k \in 1..Len(m) :
          LET keyWithoutSuffix == removeFirst(m[k].key, suffix)
          IN \/ withoutSuffix = keyWithoutSuffix
             \/ includes(withoutSuffix, keyWithoutSuffix)
             \/ includes(keyWithoutSuffix, withoutSuffix)}

\* The loop over suffixes, from suffix number n on.
RECURSIVE suffixLoop(_, _, _)
suffixLoop(normalized, m, n) ==
    IF n > Len(suffixes) THEN [site |-> "none", value |-> null]
    ELSE LET withoutSuffix == removeFirst(normalized, suffixes[n])
         IN IF MapHas(m, withoutSuffix)
            THEN [site |-> "suffix", value |-> MapGet(m, withoutSuffix)]
            ELSE IF suffixHits(normalized, m, suffixes[n]) # {}
            THEN [site |-> "suffix",
                  value |-> m[SetMin(suffixHits(normalized, m, suffixes[n]))].value]
            ELSE suffixLoop(normalized, m, n + 1)

\* findTournamentDate with the containment loop ahead of the exact lookup.
findTournamentDatePartialFirst(folderName, m) ==
    LET normalized == normalizeTournamentName(folderName)
    IN IF partialHits(normalized, m) # {}
       THEN [site |-> "partial", value |-> m[SetMin(partialHits(normalized, m))].value]
       ELSE IF MapHas(m, normalized)
       THEN [site |-> "exact", value |-> MapGet(m, normalized)]
       ELSE suffixLoop(normalized, m, 1)

\* The record returned and the return statement that returned it.
findTournamentDate(folderName, m) ==
    LET normalized == normalizeTournamentName(folderName)
    IN IF MapHas(m, normalized)
       THEN [site |-> "exact", value |-> MapGet(m, normalized)]
       ELSE IF partialHits(normalized, m) # {}
       THEN [site |-> "partial", value |-> m[SetMin(partialHits(normalized, m))].value]
       ELSE suffixLoop(normalized, m, 1)

---------------------------------------------------------------------------
\* The sort of tournamentsWithDates

\* String.prototype.localeCompare in the default (root) collation, on the
\* characters folder names are made of: space and punctuation before
\* digits before letters; case decides only between strings equal up to
\* case, lower case first.
COLLATION == " _-0123456789abcdefghijklmnopqrstuvwxyz"
CollationRank == Positions(COLLATION)

RECURSIVE primaryCompare(_, _)
primaryCompare(a, b) ==
    IF a = "" /\ b = "" THEN 0
    ELSE IF a = "" THEN -1
    ELSE IF b = "" THEN 1
    ELSE LET ra == CollationRank[LowerChar(Head(a))]
             rb == CollationRank[LowerChar(Head(b))]
         IN IF ra < rb THEN -1
            ELSE IF ra > rb THEN 1
            ELSE primaryCompare(Tail(a), Tail(b))

\* Between strings equal up to case: the first differing character decides.
RECURSIVE caseCompare(_, _)
caseCompare(a, b) ==
    IF a = "" THEN 0
    ELSE IF Head(a) = Head(b) THEN caseCompare(Tail(a), Tail(b))
    ELSE IF IsLowerLetter(Head(a)) THEN -1 ELSE 1

localeCompare(a, b) ==
    IF primaryCompare(a, b) # 0 THEN primaryCompare(a, b) ELSE caseCompare(a, b)

\* The comparator given to sort.
compare(a, b) ==
    IF a.date # null /\ b.date # null THEN getTime(a.date) - getTime(b.date)
    ELSE IF a.date # null THEN -1
    ELSE IF b.date # null THEN 1
    ELSE localeCompare(a.name, b.name)

\* insertSorted for a sort that is not stable: an element goes ahead of the
\* elements it compares equal to.
RECURSIVE insertSortedUnstable(_, _)
insertSortedUnstable(sorted, x) ==
    IF sorted = <<>> THEN <<x>>
    ELSE IF compare(Head(sorted), x) >= 0 THEN <<x>> \o sorted
    ELSE <<Head(sorted)>> \o insertSortedUnstable(Tail(sorted), x)

\* Array.prototype.sort is stable: an element goes behind every element
\* already placed that does not compare greater.
RECURSIVE insertSorted(_, _)
insertSorted(sorted, x) ==
    IF sorted = <<>> THEN <<x>>
    ELSE IF compare(Head(sorted), x) > 0 THEN <<x>> \o sorted
    ELSE <<Head(sorted)>> \o insertSorted(Tail(sorted), x)

RECURSIVE sort(_)
sort(bindings) ==
    IF bindings = <<>> THEN <<>>
    ELSE insertSorted(sort(SubSeq(bindings, 1, Len(bindings) - 1)),
                      bindings[Len(bindings)])

---------------------------------------------------------------------------
\* Inputs of one season: the lines of Tournament_Dates.csv and the folders
\* of the LD directory.

MaxRows == 3
MaxDirs == 2
MaxBindings == 3

RawLines ==
    { "Date,Name",
      " ",
      "\"May 5-6, 2025\",Greenhill",
      "May 9\tGreenhill Classic",
      "\"June 1, 2026\",Greenhill Invitational",
      "July 4-6, 2026\tHarvard Tournament",
      "\"May 1, 2025\",Blue Key",
      "May 8\tBlueKey",
      "May 18\tBronx,NY",
      "TBD,Glenbrooks",
      "Stanford",
      "May 7-9,NaN" }

FileContents == UNION {[1..n -> RawLines] : n \in 0..MaxRows}

FolderNames == {"Greenhill Classic", "Harvard Forum", "Bronx Forum"}

\* Sequences of distinct elements of S, at most n long.
Listings(S, n) ==
    {d \in UNION {[1..k -> S] : k \in 0..n} :
        \A a, b \in 1..Len(d) : a # b => d[a] # d[b]}

SortNames == {"A", "B", "C", "b"}
SortKeys == <<"a", "b", "c">>
SortDateTexts == {"", "August 1, 2025", "September 1, 2025", "August 32, 2025"}

\* The table a file with one row per chosen key loads: texts[k] is the date
\* text of the row of SortKeys[k], "" when the file has no such row.
sortTable(texts) ==
    LET rows == [k \in 1..Len(SortKeys) |->
                    [key |-> SortKeys[k],
                     value |-> [originalName |-> SortKeys[k],
                                date |-> parseStartDate(texts[k]),
                                dateStr |-> texts[k]]]]
        loaded(e) == e.value.date # null
    IN SelectSeq(rows, loaded)

SortTables == {sortTable(texts) : texts \in [1..Len(SortKeys) -> SortDateTexts]}

binding(name, info) ==
    [name |-> name,
     date |-> IF info = null THEN null ELSE info.date,
     dateStr |-> IF info = null THEN null ELSE info.dateStr]

names(bindings) == [k \in 1..Len(bindings) |-> bindings[k].name]

---------------------------------------------------------------------------
\* The run over one season.

Init ==
    /\ pc = "season"
    /\ dateStr = "" /\ date = null
    /\ lines = <<>> /\ i = 0 /\ line = "" /\ columns = <<>>
    /\ dateMap = <<>>
    /\ tournamentDirs = <<>> /\ j = 0
    /\ dateInfo = null /\ site = "none"
    /\ tournamentsWithDates = <<>> /\ tournamentOrder = <<>>

\* The season has no LD directory: its lists stay empty.
LdMissing ==
    /\ pc = "season"
    /\ pc' = "done"
    /\ UNCHANGED <<dateStr, date, lines, i, line, columns, dateMap,
                   tournamentDirs, j, dateInfo, site, tournamentsWithDates,
                   tournamentOrder>>

\* loadTournamentDates: the file does not exist.
LoadMissing ==
    /\ pc = "season"
    /\ dateMap' = <<>>
    /\ pc' = "readdir"
    /\ UNCHANGED <<dateStr, date, lines, i, line, columns, tournamentDirs, j,
                   dateInfo, site, tournamentsWithDates, tournamentOrder>>

\* loadTournamentDates: the file is read, blank lines dropped, the header
\* looked for. With no line left, lines[0] is undefined and
\* lines[0].toLowerCase() throws a TypeError nothing catches.
LoadRead ==
    /\ pc = "season"
    /\ \E content \in FileContents :
          /\ lines' = filterBlank(content)
          /\ IF lines' = <<>>
             THEN pc' = "crashed" /\ i' = i
             ELSE pc' = "rows" /\ i' = startIndex(lines') + 1
    /\ UNCHANGED <<dateStr, date, line, columns, dateMap, tournamentDirs, j,
                   dateInfo, site, tournamentsWithDates, tournamentOrder>>

\* One turn of the loop over the lines.
LoadRow ==
    /\ pc = "rows"
    /\ i <= Len(lines)
    /\ line' = lines[i]
    /\ columns' = parseColumns(lines, i)
    /\ IF rowAccepted(columns')
       THEN /\ dateStr' = trim(columns'[1])
            /\ date' = parseStartDate(dateStr')
            /\ dateMap' = loadRow(dateMap, columns', date')
       ELSE UNCHANGED <<dateStr, date, dateMap>>
    /\ i' = i + 1
    /\ UNCHANGED <<pc, lines, tournamentDirs, j, dateInfo, site,
                   tournamentsWithDates, tournamentOrder>>

\* The loop is over: the table is returned, the locals are gone.
LoadReturn ==
    /\ pc = "rows"
    /\ i > Len(lines)
    /\ pc' = "readdir"
    /\ lines' = <<>> /\ i' = 0 /\ line' = "" /\ columns' = <<>>
    /\ dateStr' = "" /\ date' = null
    /\ UNCHANGED <<dateMap, tournamentDirs, j, dateInfo, site,
                   tournamentsWithDates, tournamentOrder>>

\* The folders of the LD directory, in the order the file system gives.
ReadDirs ==
    /\ pc = "readdir"
    /\ \E dirs \in Listings(FolderNames, MaxDirs) : tournamentDirs' = dirs
    /\ j' = 1
    /\ pc' = "resolve"
    /\ UNCHANGED <<dateStr, date, lines, i, line, columns, dateMap, dateInfo,
                   site, tournamentsWithDates, tournamentOrder>>

\* One turn of the loop over the folders.
Resolve ==
    /\ pc = "resolve"
    /\ j <= Len(tournamentDirs)
    /\ LET found == findTournamentDate(tournamentDirs[j], dateMap)
       IN /\ dateInfo' = found.value
          /\ site' = found.site
          /\ tournamentsWithDates' =
                Append(tournamentsWithDates, binding(tournamentDirs[j], found.value))
    /\ j' = j + 1
    /\ UNCHANGED <<pc, dateStr, date, lines, i, line, columns, dateMap,
                   tournamentDirs, tournamentOrder>>

\* The loop is over: the bindings are sorted and the order is written.
Sort ==
    /\ pc = "resolve"
    /\ j > Len(tournamentDirs)
    /\ tournamentsWithDates' = sort(tournamentsWithDates)
    /\ tournamentOrder' = names(tournamentsWithDates')
    /\ dateInfo' = null /\ site' = "none"
    /\ pc' = "done"
    /\ UNCHANGED <<dateStr, date, lines, i, line, columns, dateMap,
                   tournamentDirs, j>>

Next ==
    \/ LdMissing
    \/ LoadMissing
    \/ LoadRead
    \/ LoadRow
    \/ LoadReturn
    \/ ReadDirs
    \/ Resolve
    \/ Sort

Spec == Init /\ [][Next]_vars

---------------------------------------------------------------------------
\* parseStartDate on its own, over DateStrings.

InitParse ==
    /\ pc = "parse"
    /\ dateStr \in DateStrings /\ date = null
    /\ lines = <<>> /\ i = 0 /\ line = "" /\ columns = <<>>
    /\ dateMap = <<>>
    /\ tournamentDirs = <<>> /\ j = 0
    /\ dateInfo = null /\ site = "none"
    /\ tournamentsWithDates = <<>> /\ tournamentOrder = <<>>

Parse ==
    /\ pc = "parse"
    /\ date' = parseStartDate(dateStr)
    /\ pc' = "parsed"
    /\ UNCHANGED <<dateStr, lines, i, line, columns, dateMap, tournamentDirs,
                   j, dateInfo, site, tournamentsWithDates, tournamentOrder>>

SpecParse == InitParse /\ [][Parse]_vars

---------------------------------------------------------------------------
\* The sort on its own, over bindings of distinct folders.

InitSort ==
    /\ pc = "resolve"
    /\ dateStr = "" /\ date = null
    /\ lines = <<>> /\ i = 0 /\ line = "" /\ columns = <<>>
    /\ dateMap \in SortTables
    /\ tournamentDirs \in Listings(SortNames, MaxBindings)
    /\ j = Len(tournamentDirs) + 1
    /\ dateInfo = null /\ site = "none"
    /\ tournamentsWithDates =
          [k \in 1..Len(tournamentDirs) |->
              binding(tournamentDirs[k],
                      findTournamentDate(tournamentDirs[k], dateMap).value)]
    /\ tournamentOrder = <<>>

SpecSort == InitSort /\ [][Sort]_vars

---------------------------------------------------------------------------
\* Properties of parseStartDate (checked under SpecParse).

\* The text parseStartDate works on: trimmed, parentheticals removed.
CleanText(str) == trim(stripParens(trim(str), 1))

\* The month name that occurs earliest in the lower-cased text.
EarliestMonth(lower) ==
    CHOOSE k \in MonthsFound(lower) :
        \A k2 \in MonthsFound(lower) :
            indexOf(lower, MONTHS[k].name) <= indexOf(lower, MONTHS[k2].name)

\* The run of digits that starts at p.
RECURSIVE DigitRun(_, _)
DigitRun(s, p) ==
    IF p <= Len(s) /\ IsDigit(Char(s, p)) THEN Char(s, p) \o DigitRun(s, p + 1) ELSE ""

\* The number directly behind month name k: the digits after the name and
\* the whitespace that follows it, "" when something else comes first.
NumberAfterMonth(text, k) ==
    LET lower == toLowerCase(text)
        after == indexOf(lower, MONTHS[k].name) + Len(MONTHS[k].name)
    IN DigitRun(text, SkipSpaces(text, after))

\* C1: when the text names two or more months, the parsed date has the
\* month of the name that occurs earliest in the text and the day that
\* follows that name.
C1_StartMonthSelected ==
    LET text == CleanText(dateStr)
        lower == toLowerCase(text)
    IN (pc = "parsed" /\ Cardinality(MonthsFound(lower)) >= 2) =>
          LET k == EarliestMonth(lower)
          IN /\ date # null
             /\ date.month = MONTHS[k].num
             /\ NumberAfterMonth(text, k) # ""
             /\ date.day = parseInt(NumberAfterMonth(text, k))

\* C2: a text without a year gets its year from the month: a January-July
\* date falls in the year after the one an August-December date of the same
\* season ("September 7-9") gets, and so comes later.
C2_YearInferredFromMonth ==
    (pc = "parsed" /\ date # null /\ YearMatches(CleanText(dateStr)) = {}
        /\ date.month < 7) =>
       LET autumn == parseStartDate("September 7-9")
       IN date.year = autumn.year + 1 /\ getTime(autumn) < getTime(date)

\* Whether a day number of one or two digits directly follows the month
\* word of the text.
DayFollowsMonth(str) ==
    LET text == CleanText(str)
        lower == toLowerCase(text)
    IN /\ MonthsFound(lower) # {}
       /\ Len(NumberAfterMonth(text, EarliestMonth(lower))) \in {1, 2}

\* C3: the result is null whenever the month word is not directly followed
\* by a day number of one or two digits.
C3_NullWithoutAdjacentDay ==
    (pc = "parsed" /\ ~DayFollowsMonth(dateStr)) => date = null

---------------------------------------------------------------------------
\* Properties of findTournamentDate (checked under Spec).

\* The folder the last turn of the resolve loop looked up, normalised.
ResolvedName == normalizeTournamentName(tournamentDirs[j - 1])
Resolved == pc = "resolve" /\ j > 1

Contains(a, b) == includes(a, b) \/ includes(b, a)

\* C4: an exact key wins over every other key, and the suffix tier returns
\* a record only when no key equals, contains or is contained in the
\* normalised folder name.
C4_TierOrder ==
    Resolved =>
       /\ MapHas(dateMap, ResolvedName) =>
             (site = "exact" /\ dateInfo = MapGet(dateMap, ResolvedName))
       /\ site = "suffix" =>
             \A k \in 1..Len(dateMap) : ~Contains(ResolvedName, dateMap[k].key)

\* C4 witness: the exact key's record is returned although a key inserted
\* before it is a substring of the folder name and holds another record.
C4_Witness ==
    /\ Resolved
    /\ site = "exact"
    /\ \E k, e \in 1..Len(dateMap) :
          /\ k < e
          /\ dateMap[e].key = ResolvedName
          /\ includes(ResolvedName, dateMap[k].key)
          /\ dateMap[k].value # dateInfo

\* The suffix tier as the claim states it: every suffix of the set is
\* removed from the name and from the keys, then containment decides.
C9_SuffixSet == <<"invitational", "tournament", "classic", "memorial", "forum">>
RECURSIVE C9_StripSet(_, _)
C9_StripSet(name, n) ==
    IF n > Len(C9_SuffixSet) THEN name
    ELSE C9_StripSet(removeFirst(name, C9_SuffixSet[n]), n + 1)
C9_SetHits ==
    {k \in 1..Len(dateMap) :
        Contains(C9_StripSet(ResolvedName, 1), C9_StripSet(dateMap[k].key, 1))}

\* C9 as stated: when the first two tiers find nothing, the record returned
\* is the one of the first key that matches by containment once the suffix
\* set (with "forum") is stripped from the name and from the keys.
C9_StripsSuffixSet ==
    (Resolved /\ site \in {"suffix", "none"}) =>
       IF C9_SetHits = {} THEN dateInfo = null
       ELSE dateInfo = dateMap[SetMin(C9_SetHits)].value

\* The suffix tier as the code has it: one suffix of the list at a time.
C9_List == <<"invitational", "tournament", "classic", "memorial">>
C9_Hits(n) ==
    LET name == removeFirst(ResolvedName, C9_List[n])
        stripped(k) == removeFirst(dateMap[k].key, C9_List[n])
        equal == {k \in 1..Len(dateMap) : dateMap[k].key = name}
    IN IF equal # {} THEN equal
       ELSE {k \in 1..Len(dateMap) : Contains(name, stripped(k))}

\* C9 amended: the tier takes the four suffixes one at a time; the first
\* suffix with a match decides, by the key equal to the stripped name or
\* else the first key whose stripped form matches by containment. A key
\* that carries another suffix than the folder does is found this way
\* ("forum" on the folder included), a pair that only a stripped "forum"
\* would relate is not.
C9_SuffixTierOneAtATime ==
    (Resolved /\ site \in {"suffix", "none"}) =>
       LET matching == {n \in 1..Len(C9_List) : C9_Hits(n) # {}}
       IN /\ IF matching = {} THEN dateInfo = null /\ site = "none"
             ELSE /\ site = "suffix"
                  /\ dateInfo = dateMap[SetMin(C9_Hits(SetMin(matching)))].value
          /\ (tournamentDirs[j - 1] = "Greenhill Classic"
                /\ MapKeys(dateMap) = <<"greenhillinvitational">>)
                => dateInfo = dateMap[1].value
          /\ (tournamentDirs[j - 1] = "Harvard Forum"
                /\ MapKeys(dateMap) = <<"harvardtournament">>)
                => dateInfo = dateMap[1].value
          /\ (tournamentDirs[j - 1] = "Bronx Forum"
                /\ MapKeys(dateMap) = <<"bronxny">>)
                => dateInfo = null

\* C9 witness: "Harvard Forum" resolves through the suffix tier to the
\* record of "Harvard Tournament".
C9_Witness ==
    /\ Resolved
    /\ tournamentDirs[j - 1] = "Harvard Forum"
    /\ site = "suffix"
    /\ dateInfo # null
    /\ dateInfo.originalName = "Harvard Tournament"

---------------------------------------------------------------------------
\* Properties of the sort (checked under SpecSort).

IndexOfName(seq, name) == CHOOSE k \in 1..Len(seq) : seq[k] = name

\* Two bindings of the same folder, date and date text (the text is null
\* exactly when the date is).
SameBinding(x, y) ==
    /\ x.name = y.name
    /\ x.date = y.date
    /\ x.date # null => x.dateStr = y.dateStr

\* C5: the sorted list is a permutation of the bindings of the folders;
\* dated bindings come first, in ascending date order, undated ones follow
\* in ascending name order, and bindings of equal date keep the order the
\* folders were read in.
C5_SortedOrder ==
    pc = "done" =>
       LET out == tournamentsWithDates
           n == Len(tournamentDirs)
       IN /\ Len(out) = n
          /\ tournamentOrder = names(out)
          /\ \A d \in 1..n :
                Cardinality({k \in 1..n :
                    SameBinding(out[k],
                        binding(tournamentDirs[d],
                                findTournamentDate(tournamentDirs[d], dateMap).value))}) = 1
          /\ \A a, b \in 1..n : a < b =>
                /\ out[a].date = null => out[b].date = null
                /\ (out[a].date # null /\ out[b].date # null) =>
                      /\ getTime(out[a].date) <= getTime(out[b].date)
                      /\ getTime(out[a].date) = getTime(out[b].date) =>
                            IndexOfName(tournamentDirs, out[a].name)
                               < IndexOfName(tournamentDirs, out[b].name)
                /\ (out[a].date = null /\ out[b].date = null) =>
                      localeCompare(out[a].name, out[b].name) <= 0

\* C5 witness: [(A, none), (B, 2025-09-01), (C, 2025-08-01)] sorted to
\* [C, B, A].
C5_Witness ==
    /\ pc = "done"
    /\ tournamentDirs = <<"A", "B", "C">>
    /\ MapKeys(dateMap) = <<"b", "c">>
    /\ dateMap[1].value.dateStr = "September 1, 2025"
    /\ dateMap[2].value.dateStr = "August 1, 2025"
    /\ tournamentOrder = <<"C", "B", "A">>

---------------------------------------------------------------------------
\* Properties of the run and of loadTournamentDates (checked under Spec).

\* C6: the run never aborts, and the order written for the season holds
\* every folder of the season exactly once.
C6_RunNeverAborts ==
    /\ pc # "crashed"
    /\ pc = "done" =>
          /\ Len(tournamentOrder) = Len(tournamentDirs)
          /\ \A d \in 1..Len(tournamentDirs) :
                \E k \in 1..Len(tournamentOrder) :
                    tournamentOrder[k] = tournamentDirs[d]

\* A row has been split in this call of the loader.
RowDone == pc = "rows" /\ line # ""

\* C7 as stated: every row is split with the delimiter the first line
\* decides: tab if the first line holds a tab, comma otherwise.
C7_DelimiterFromFirstLine ==
    RowDone =>
       columns = IF includes(lines[1], TAB)
                 THEN splitTab(line, "") ELSE splitCsv(line, "", FALSE)

\* C7 amended: every row is split with the delimiter the row itself
\* decides: on tabs if the row holds a tab, on commas outside quotes
\* otherwise, whatever the first line holds.
C7_DelimiterPerRow ==
    RowDone =>
       /\ includes(line, TAB) => columns = splitTab(line, "")
       /\ ~includes(line, TAB) => columns = splitCsv(line, "", FALSE)

\* C7 witness: in a table whose first line holds no tab, a row with a tab
\* and a comma has been split on the tab.
C7_Witness ==
    /\ RowDone
    /\ ~includes(lines[1], TAB)
    /\ includes(line, TAB) /\ includes(line, ",")
    /\ columns = splitTab(line, "")
    /\ columns # splitCsv(line, "", FALSE)

BlankOrNan(col) == trim(col) = "" \/ toLowerCase(trim(col)) = "nan"

\* A row the loader must skip: too few columns, an empty or "nan" name or
\* date, or a date that does not parse.
Skipped(cols) ==
    \/ Len(cols) < 2
    \/ BlankOrNan(cols[1]) \/ BlankOrNan(cols[2])
    \/ parseStartDate(trim(cols[1])) = null

C8_Step ==
    (pc = "rows" /\ i' = i + 1) =>
       /\ Skipped(columns') => dateMap' = dateMap
       /\ \A k \in 1..Len(dateMap') :
             /\ dateMap'[k].key = normalizeTournamentName(dateMap'[k].value.originalName)
             /\ dateMap'[k].value.date # null

\* C8: after every row, each entry of the table is keyed by the normalised
\* name of its record and holds a date; a skipped row leaves the table as
\* it was.
C8_TableEntriesValid == [][C8_Step]_vars

\* C8 witness: a row was skipped while the table held an entry.
C8_Witness ==
    /\ RowDone
    /\ Skipped(columns)
    /\ dateMap # <<>>

\* What the rows read so far give: for each, whether it is loaded, its key
\* and its record.
RowRead(cols) ==
    LET d == IF Len(cols) < 2 \/ BlankOrNan(cols[1]) \/ BlankOrNan(cols[2])
             THEN null ELSE parseStartDate(trim(cols[1]))
    IN IF d = null THEN [loaded |-> FALSE]
       ELSE [loaded |-> TRUE,
             key |-> normalizeTournamentName(trim(cols[2])),
             value |-> [originalName |-> trim(cols[2]), date |-> d,
                        dateStr |-> trim(cols[1])]]

RowsRead ==
    [n \in (startIndex(lines) + 1)..(i - 1) |-> RowRead(parseColumns(lines, n))]

SetMax(S) == CHOOSE x \in S : \A y \in S : x >= y

====
